---- MODULE Spec2Model ----
(***************************************************************************)
(* Model of runtime/src/claims.rs: the module that lets the holder of an   *)
(* Ethereum key redeem a pre-allocated balance by signing the identifier   *)
(* of the receiving account.                                               *)
(*                                                                         *)
(* Storage (decl_storage): Claims, a map EthereumAddress => Balance, and   *)
(* Total, a Balance.  The only dispatchable call is claim.  The balances   *)
(* module and the event log are the collaborators claim writes to.         *)
(*                                                                         *)
(* Cryptography is idealised: keccak256 is injective, and public-key       *)
(* recovery returns the signer's key exactly when the digest and the       *)
(* recovery id are the ones the signature was made with; in every other    *)
(* case it returns no key or a key nobody holds.                           *)
(***************************************************************************)
EXTENDS Integers, Sequences, FiniteSets, TLC

VARIABLES Claims, Total, FreeBalance, Events, genesis, last, call, probe

vars == <<Claims, Total, FreeBalance, Events, genesis, last, call, probe>>

\* The storage and collaborator state a call can change.
storage == <<Claims, Total, FreeBalance, Events>>

-----------------------------------------------------------------------------
(* Bounds of the model *)

\* T::Balance is a fixed-width unsigned integer: its values are 0 .. BalanceModulus - 1.
BalanceModulus == 4

\* Longest genesis list of (address, balance) pairs.
MaxSeeds == 2

\* Longest account identifier handed to create_msg on its own: with the 33
\* bytes of the prefix the length field reaches three digits.
MaxIdLen == 67

-----------------------------------------------------------------------------
(* Option<T> *)

None == <<>>

Some(x) == <<x>>

IsSome(o) == Len(o) = 1

Unwrap(o) == o[1]

-----------------------------------------------------------------------------
(* Inputs *)

\* Holders of secp256k1 secret keys (the tests' alice_secret, bob_secret).
Keys == {"Alice", "Bob"}

\* AccountId values (u64 in the tests: 42 and 69).
Accounts == {42, 69}

\* The (r, s) part of a signature either is a signature some key made over some
\* account's message, or does not parse (r or s out of range).
Malformed == "malformed"

\* Values of the i8 recovery-id field a caller may supply: the two ids signing
\* returns, and 28 (the 27/28 convention of Ethereum wallets).
RecIds == {0, 1, 28}

\* Origins of a call: signed by an account, or not signed (root).
Signed(a) == [kind |-> "signed", who |-> a]

Root == [kind |-> "root", who |-> 0]

-----------------------------------------------------------------------------
(* Bytes and hashing *)

\* The k low bytes of n, least significant first.
RECURSIVE LittleEndian(_, _)
LittleEndian(n, k) == IF k = 0 THEN <<>> ELSE <<n % 256>> \o LittleEndian(n \div 256, k - 1)

\* codec::Encode of a u64 AccountId: 8 bytes, little endian.
encode(n) == LittleEndian(n, 8)

\* b"\x19Ethereum Signed Message:\n"
EthereumPrefix == <<25, 69, 116, 104, 101, 114, 101, 117, 109, 32, 83, 105, 103, 110,
                    101, 100, 32, 77, 101, 115, 115, 97, 103, 101, 58, 10>>

\* b"Pay DOTs to the Polkadot account:"
prefix == <<80, 97, 121, 32, 68, 79, 84, 115, 32, 116, 111, 32, 116, 104, 101, 32, 80,
            111, 108, 107, 97, 100, 111, 116, 32, 97, 99, 99, 111, 117, 110, 116, 58>>

\* The loop of create_msg: the decimal digits of l, least significant first.
RECURSIVE RevDigits(_)
RevDigits(l) == IF l > 0 THEN <<48 + (l % 10)>> \o RevDigits(l \div 10) ELSE <<>>

\* The digits left in the order the loop produced them.
Reverse_skipped(s) == s

Reverse(s) == [i \in 1..Len(s) |-> s[Len(s) + 1 - i]]

create_msg(who) ==
    LET l == Len(prefix) + Len(who)
        rev == RevDigits(l)
    IN  EthereumPrefix \o Reverse(rev) \o prefix \o who

\* tiny_keccak::keccak256, idealised as an injective function.
keccak256(data) == [preimage |-> data]

-----------------------------------------------------------------------------
(* Signatures *)

PublicKey(k) == <<"pub", k>>

\* A key no participant holds: what recovery yields for a digest or a recovery
\* id other than the one the signature was made with.
StrangerKey == <<"pub", "stranger">>

\* The recovery id secp256k1::sign returns with a signature.
RecoveryIdOf(k) == IF k = "Alice" THEN 0 ELSE 1

\* The tests' alice_sig / bob_sig: k signs keccak256(create_msg(who)).
sign(k, who) ==
    [r_s |-> [key |-> k, digest |-> keccak256(create_msg(who))], v |-> RecoveryIdOf(k)]

\* The (r, s) each signer produces over each account's message; a malformed
\* (r, s) keeps the shape and fails to parse.
SignedBy == [k \in Keys \cup {Malformed}, a \in Accounts |-> sign(k, encode(a)).r_s]

\* The signature a caller submits: the (r, s) of kind k over account a's
\* message, with recovery-id field v.
Signature(k, a, v) == [r_s |-> SignedBy[k, a], v |-> v]

\* `sig.2 as u8`: the i8 field reinterpreted as an unsigned byte.
as_u8(v) == v % 256

\* secp256k1::Signature::parse_slice
parse_slice(r_s) == IF r_s.key \in Keys THEN Some(r_s) ELSE None

\* secp256k1::RecoveryId::parse
RecoveryId_parse(p) == IF p < 4 THEN Some(p) ELSE None

\* secp256k1::recover
secp256k1_recover(msg, r_s, id) ==
    IF r_s.digest = msg /\ id = RecoveryIdOf(r_s.key) THEN Some(PublicKey(r_s.key))
    ELSE IF id >= 2 THEN None
    ELSE Some(StrangerKey)

ecdsa_recover(sig, msg) ==
    LET s == parse_slice(sig.r_s)
        id == RecoveryId_parse(as_u8(sig.v))
    IN  IF ~IsSome(s) THEN None
        ELSE IF ~IsSome(id) THEN None
        ELSE secp256k1_recover(msg, Unwrap(s), Unwrap(id))

\* keccak256(pubkey)[12..]: the low 20 bytes of the hash of the public key.
Low20(h) == <<"eth", h.preimage[2]>>

\* A recovery that checks the signature against the digest it carries, not
\* against the message rebuilt for `who`.
eth_recover_unbound(s, who) ==
    LET pk == ecdsa_recover(s, s.r_s.digest)
    IN  IF IsSome(pk) THEN Some(Low20(keccak256(Unwrap(pk)))) ELSE None

eth_recover(s, who) ==
    LET msg == keccak256(create_msg(who))
        pk == ecdsa_recover(s, msg)
    IN  IF IsSome(pk) THEN Some(Low20(keccak256(Unwrap(pk)))) ELSE None

\* The tests' alice_eth / bob_eth.
EthAddress(k) == Low20(keccak256(PublicKey(k)))

\* The addresses a genesis list may name.
SeedAddresses == {EthAddress(k) : k \in Keys}

\* Every address the model can form.
Addresses == SeedAddresses \cup {Low20(keccak256(StrangerKey))}

-----------------------------------------------------------------------------
(* Genesis *)

\* The balances a genesis list may give: none, the smallest and the largest.
SeedBalances == {0, 1, BalanceModulus - 1}

\* T::Balance addition: of the two outcomes a build gives on overflow (abort,
\* or wrap around), the one that leaves a state behind.
BalanceAdd(a, b) == (a + b) % BalanceModulus

RECURSIVE SeedLists(_)
SeedLists(n) ==
    IF n = 0 THEN {<<>>}
    ELSE LET shorter == SeedLists(n - 1)
         IN  shorter \cup {Append(l, <<a, b>>) :
                             l \in {s \in shorter : Len(s) = n - 1},
                             a \in SeedAddresses, b \in SeedBalances}

\* Claims build: the pairs are inserted in order, a later pair overwriting
\* an earlier one for the same address.
RECURSIVE BuildClaims(_)
BuildClaims(config) ==
    IF config = <<>> THEN <<>>
    ELSE LET front == BuildClaims(SubSeq(config, 1, Len(config) - 1))
             pair == config[Len(config)]
         IN  [a \in (DOMAIN front) \cup {pair[1]} |->
                 IF a = pair[1] THEN pair[2] ELSE front[a]]

\* Total build: config.claims.iter().fold(Zero::zero(), |acc, &(_, n)| acc + n)
RECURSIVE BuildTotal(_)
BuildTotal(config) ==
    IF config = <<>> THEN 0
    ELSE BalanceAdd(BuildTotal(SubSeq(config, 1, Len(config) - 1)), config[Len(config)][2])

\* Free balances present when the chain starts: account 42 exists, 69 does not.
InitialFreeBalance == [a \in {42} |-> 1]

NoCall == [origin |-> [kind |-> "none", who |-> 0], key |-> "none", acct |-> 0, v |-> 0,
           result |-> "none"]

\* No call is in progress, and none has run: the frame of a call holds its
\* arguments, its locals, the statements it has executed and the state it
\* started from.
NoFrame ==
    [pc |-> "idle", sender |-> 0, key |-> "none", acct |-> 0, v |-> 0,
     signer |-> <<"eth", "none">>, balance_due |-> 0, done |-> <<>>, entry |-> <<>>]

\* No function is being evaluated on its own.
NoProbe == [op |-> "none"]

\* The state the genesis build leaves for the list config.
Genesis(config) ==
    /\ genesis = config
    /\ Claims = BuildClaims(config)
    /\ Total = BuildTotal(config)
    /\ FreeBalance = InitialFreeBalance
    /\ Events = <<>>
    /\ last = NoCall
    /\ call = NoFrame

Init ==
    /\ \E config \in SeedLists(MaxSeeds) : Genesis(config)
    /\ probe = NoProbe

-----------------------------------------------------------------------------
(* claim *)

BadOrigin == "bad origin: expected to be a signed origin"

InvalidSignature == "Invalid Ethereum signature"

NoSuchClaim == "Ethereum address has no claim"

Panic == "Logic error: Pot less than the total of claims!"

\* system::ensure_signed
ensure_signed(origin) == IF origin.kind = "signed" THEN Some(origin.who) ELSE None

\* <Claims<T>>::get
claims(c, a) == IF a \in DOMAIN c THEN Some(c[a]) ELSE None

\* A take that reads the value and leaves the entry in place.
take_keeping(c, a) == [value |-> claims(c, a), map |-> c]

\* A take that zeroes the entry instead of removing it.
take_zeroing(c, a) ==
    [value |-> claims(c, a), map |-> [x \in DOMAIN c |-> IF x = a THEN 0 ELSE c[x]]]

\* A take that removes every entry (kill of the whole map).
take_clearing(c, a) == [value |-> claims(c, a), map |-> <<>>]

\* <Claims<T>>::take: the value read and the map without the key.
take(c, a) == [value |-> claims(c, a), map |-> [x \in (DOMAIN c) \ {a} |-> c[x]]]

\* balances::Module::increase_free_balance_creating
increase_free_balance_creating(fb, who, value) ==
    IF who \in DOMAIN fb THEN [fb EXCEPT ![who] = @ + value]
    ELSE [x \in (DOMAIN fb) \cup {who} |-> IF x = who THEN value ELSE fb[x]]

\* Self::deposit_event(RawEvent::Claimed(sender, signer, balance_due))
deposit_event(ev, sender, signer, balance_due) ==
    Append(ev, [who |-> sender, signer |-> signer, amount |-> balance_due])

\* A rejection that has already touched the caller's account.
no_such_claim_creating(st, sender, signer) ==
    [st EXCEPT !.FreeBalance = increase_free_balance_creating(@, sender, 0),
               !.result = NoSuchClaim]

\* A missing entry read as a claim of zero (unwrap_or_default).
no_such_claim_default(st, sender, signer) ==
    [st EXCEPT !.FreeBalance = increase_free_balance_creating(@, sender, 0),
               !.Events = deposit_event(@, sender, signer, 0),
               !.result = "Ok"]

\* A missing entry reported as a bad signature.
no_such_claim_merged(st, sender, signer) == [st EXCEPT !.result = InvalidSignature]

\* .ok_or("Ethereum address has no claim")? on a missing entry: the call
\* returns the error, having written nothing.
no_such_claim(st, sender, signer) == [st EXCEPT !.result = NoSuchClaim]

\* A mutate that leaves Total as it was.
total_mutate_skipped(t, balance_due) == Some(t)

\* <Total<T>>::mutate: the new Total, or none when the closure panics.
total_mutate(t, balance_due) == IF t < balance_due THEN None ELSE Some(t - balance_due)

\* The call, on state st = [Claims, Total, FreeBalance, Events]: the state it
\* leaves and its result.
claim(st, origin, ethereum_signature) ==
    LET sender == ensure_signed(origin)
        signer == eth_recover(ethereum_signature, encode(Unwrap(sender)))
        taken == take(st.Claims, Unwrap(signer))
        balance_due == Unwrap(taken.value)
        t == total_mutate(st.Total, balance_due)
    IN  IF ~IsSome(sender) THEN [st EXCEPT !.result = BadOrigin]
        ELSE IF ~IsSome(signer) THEN [st EXCEPT !.result = InvalidSignature]
        ELSE IF ~IsSome(taken.value) THEN no_such_claim(st, Unwrap(sender), Unwrap(signer))
        ELSE IF ~IsSome(t) THEN [st EXCEPT !.Claims = taken.map, !.result = Panic]
        ELSE [Claims |-> taken.map,
              Total |-> Unwrap(t),
              FreeBalance |->
                  increase_free_balance_creating(st.FreeBalance, Unwrap(sender), balance_due),
              Events |-> deposit_event(st.Events, Unwrap(sender), Unwrap(signer), balance_due),
              result |-> "Ok"]

\* A panic is fatal: nothing runs after it.  The state it leaves is the one
\* at the panic: the entry taken, Total, balances and events untouched.
Panicked == last.result = Panic

Claim(origin, k, a, v) ==
    /\ ~Panicked
    /\ LET st == [Claims |-> Claims, Total |-> Total, FreeBalance |-> FreeBalance,
                  Events |-> Events, result |-> "none"]
       IN  \E out \in {claim(st, origin, Signature(k, a, v))} :
           /\ Claims' = out.Claims
           /\ Total' = out.Total
           /\ FreeBalance' = out.FreeBalance
           /\ Events' = out.Events
           /\ last' = [origin |-> origin, key |-> k, acct |-> a, v |-> v,
                       result |-> out.result]
    /\ UNCHANGED <<genesis, call, probe>>

Next ==
    \/ \E sender \in Accounts, k \in Keys, a \in Accounts, v \in RecIds :
           Claim(Signed(sender), k, a, v)
    \/ \E sender \in Accounts : Claim(Signed(sender), Malformed, sender, 0)
    \/ \E k \in Keys : Claim(Root, k, 42, RecoveryIdOf(k))

Spec == Init /\ [][Next]_vars

-----------------------------------------------------------------------------
(* Definitions the properties share *)

RECURSIVE LedgerSum(_)
\* The sum, as a number, of the balances in ledger c.
LedgerSum(c) ==
    IF DOMAIN c = {} THEN 0
    ELSE LET a == CHOOSE x \in DOMAIN c : TRUE
         IN  c[a] + LedgerSum([x \in (DOMAIN c) \ {a} |-> c[x]])

RECURSIVE ListSum(_)
\* The sum, as a number, of the balances of the pairs of a genesis list.
ListSum(config) ==
    IF config = <<>> THEN 0 ELSE config[Len(config)][2] + ListSum(SubSeq(config, 1, Len(config) - 1))

\* The addresses of a genesis list are pairwise distinct.
DistinctAddresses(config) ==
    \A i, j \in 1..Len(config) : config[i][1] = config[j][1] => i = j

\* The balance of the last pair of a genesis list that names address a.
LastSeeded(config, a) ==
    LET at == {i \in 1..Len(config) : config[i][1] = a}
    IN  IF at = {} THEN None
        ELSE Some(config[CHOOSE i \in at : \A j \in at : j <= i][2])

Seeded(a) == \E i \in 1..Len(genesis) : genesis[i][1] = a

\* The free balance of account a, 0 for an account that does not exist.
FreeOf(fb, a) == IF a \in DOMAIN fb THEN fb[a] ELSE 0

\* What claim has credited to account a so far.
Credited(a) == FreeOf(FreeBalance, a) - FreeOf(InitialFreeBalance, a)

RECURSIVE SumCredited(_)
SumCredited(S) ==
    IF S = {} THEN 0
    ELSE LET a == CHOOSE x \in S : TRUE IN Credited(a) + SumCredited(S \ {a})

\* The events that record a redemption of address a.
RedemptionsOf(ev, a) == {i \in 1..Len(ev) : ev[i].signer = a}

\* Call l (a value of last) was made by a signed origin.
IsSignedCall(l) == l.origin.kind = "signed"

\* The address recovery yields for call l.
RecoveredBy(l) == eth_recover(Signature(l.key, l.acct, l.v), encode(l.origin.who))

\* Call l carries a signature that key k made over the caller's own message,
\* with the recovery id signing returned.
SignedForCaller(l, k) ==
    /\ IsSignedCall(l)
    /\ l.key = k
    /\ k \in Keys
    /\ l.acct = l.origin.who
    /\ l.v = RecoveryIdOf(k)

Rejections == {InvalidSignature, NoSuchClaim}

-----------------------------------------------------------------------------
(* C1 *)

\* C1: from a genesis list of distinct addresses, after any sequence of claim
\* calls, Total equals the sum of the balances present in Claims.
C1_TotalIsLedgerSum ==
    DistinctAddresses(genesis) => Total = LedgerSum(Claims)

-----------------------------------------------------------------------------
(* C2 *)

\* C2: for every address, at most one call ever removes its entry and is
\* credited: a removed entry never comes back, no address is recorded as
\* redeemed twice, and a later call that recovers a redeemed address fails with
\* NoSuchClaim and leaves Total as it was.
C2_AtMostOneRedemption ==
    [][\A a \in Addresses :
          /\ (a \notin DOMAIN Claims) => (a \notin DOMAIN Claims')
          /\ Cardinality(RedemptionsOf(Events', a)) <= 1
          /\ (/\ RedemptionsOf(Events, a) # {}
              /\ IsSignedCall(last')
              /\ RecoveredBy(last') = Some(a))
             => (last'.result = NoSuchClaim /\ Total' = Total)]_vars

\* An address redeemed by one account is claimed again, with the same key
\* signing for another account, and the call is rejected.
C2_Witness ==
    /\ last.result = NoSuchClaim
    /\ IsSignedCall(last)
    /\ \E k \in Keys :
          /\ SignedForCaller(last, k)
          /\ \E i \in 1..Len(Events) :
                Events[i].signer = EthAddress(k) /\ Events[i].who # last.origin.who

-----------------------------------------------------------------------------
(* C3 *)

-----------------------------------------------------------------------------
(* C4 *)

\* C4: for any entry (A, b) and any caller X, a claim by X with a signature
\* made by A's key over X's message succeeds: afterwards A is absent from
\* Claims, Total has decreased by exactly b, and X has been credited exactly b.
C4_ValidClaimSettles ==
    [][\A k \in Keys :
          (SignedForCaller(last', k) /\ EthAddress(k) \in DOMAIN Claims)
          => LET X == last'.origin.who
                 b == Claims[EthAddress(k)]
             IN  /\ last'.result = "Ok"
                 /\ EthAddress(k) \notin DOMAIN Claims'
                 /\ Total' = Total - b
                 /\ X \in DOMAIN FreeBalance'
                 /\ FreeOf(FreeBalance', X) = FreeOf(FreeBalance, X) + b
                 /\ Events' = Append(Events, [who |-> X, signer |-> EthAddress(k), amount |-> b])]_vars

-----------------------------------------------------------------------------
(* C5 *)

\* C5: a call rejected with InvalidSignature or NoSuchClaim leaves Claims,
\* Total, every free balance and the event log as they were.
C5_RejectionChangesNothing ==
    [][last'.result \in Rejections => UNCHANGED storage]_vars

\* A call has been rejected in a state where a claim was redeemed before and
\* another is still open.
C5_Witness ==
    /\ last.result \in Rejections
    /\ Events # <<>>
    /\ DOMAIN Claims # {}

-----------------------------------------------------------------------------
(* C6 *)

\* C6: a signature made by a key over account X's message, submitted by a
\* different account Y, never settles a claim: the call fails with NoSuchClaim
\* or InvalidSignature and no entry, balance, total or event changes.
C6_SignatureBoundToAccount ==
    [][(/\ IsSignedCall(last')
        /\ last'.key \in Keys
        /\ last'.acct # last'.origin.who)
       => (last'.result \in Rejections /\ UNCHANGED storage)]_vars

\* The key of an address with an open claim signed for one account, another
\* account submitted the signature, and the call was rejected.
C6_Witness ==
    /\ IsSignedCall(last)
    /\ last.key \in Keys
    /\ last.acct # last.origin.who
    /\ last.v = RecoveryIdOf(last.key)
    /\ EthAddress(last.key) \in DOMAIN Claims
    /\ last.result \in Rejections

-----------------------------------------------------------------------------
(* C7 *)

\* C7: a claim whose signature recovers to an address with no entry in Claims
\* (never seeded, or already redeemed) fails with NoSuchClaim and changes no
\* state.
C7_AbsentAddressIsNoSuchClaim ==
    [][(/\ IsSignedCall(last')
        /\ IsSome(RecoveredBy(last'))
        /\ Unwrap(RecoveredBy(last')) \notin DOMAIN Claims)
       => (last'.result = NoSuchClaim /\ UNCHANGED storage)]_vars

\* A key that never had a claim signed for the caller, and the call was
\* rejected with NoSuchClaim.
C7_Witness ==
    /\ last.result = NoSuchClaim
    /\ \E k \in Keys : SignedForCaller(last, k) /\ ~Seeded(EthAddress(k))
    /\ DOMAIN Claims # {}

-----------------------------------------------------------------------------
(* C8 *)

\* C8: a call by a signed origin fails with InvalidSignature exactly when
\* recovery returns no address, and with NoSuchClaim exactly when recovery
\* returns an address absent from Claims; a call whose recovery returns no
\* address is InvalidSignature whatever the ledger holds.
C8_RejectionByCause ==
    [][IsSignedCall(last') =>
          /\ (last'.result = InvalidSignature) <=> ~IsSome(RecoveredBy(last'))
          /\ (last'.result = NoSuchClaim) <=>
                (/\ IsSome(RecoveredBy(last'))
                 /\ Unwrap(RecoveredBy(last')) \notin DOMAIN Claims)]_vars

\* A malformed signature was rejected with InvalidSignature while the ledger
\* still holds an entry.
C8_Witness ==
    /\ last.result = InvalidSignature
    /\ last.key = Malformed
    /\ DOMAIN Claims # {}

-----------------------------------------------------------------------------
(* C9 *)

\* C9: after initialization from a list of pairs, get_claim returns the seeded
\* balance for every seeded address (the last pair winning on a duplicate) and
\* None for every other address, and get_total returns the sum of the balances
\* of the pairs of the list.
C9_GenesisState ==
    last = NoCall =>
        /\ \A a \in Addresses : claims(Claims, a) = LastSeeded(genesis, a)
        /\ Total = ListSum(genesis)

-----------------------------------------------------------------------------
(* C10 *)

\* C10: in every reachable state, what claim has credited to accounts so far
\* plus the current Total equals the Total established at initialization.
C10_NoValueMinted ==
    SumCredited(Accounts) + Total = BuildTotal(genesis)

\* Two claims have been redeemed, for positive amounts.
C10_Witness ==
    /\ Len(Events) = 2
    /\ \A i \in 1..2 : Events[i].amount > 0
    /\ SumCredited(Accounts) > 1

-----------------------------------------------------------------------------
(* claim, one statement at a time *)

\* The statements of claim that write, in the order of the source.
statements_reordered == <<"take", "credit", "mutate", "event">>

statements == <<"take", "mutate", "credit", "event">>

\* The state a call sees: the record claim works on.
Current ==
    [Claims |-> Claims, Total |-> Total, FreeBalance |-> FreeBalance, Events |-> Events,
     result |-> "none"]

\* claim is entered: the origin is checked and the signer recovered, which
\* writes nothing.  A call rejected here leaves no trace.
Enter(sender, k, a, v) ==
    /\ call.pc = "idle"
    /\ \E signer \in {eth_recover(Signature(k, a, v), encode(sender))} :
          /\ IsSome(signer)
          /\ call' = [pc |-> "running", sender |-> sender, key |-> k, acct |-> a, v |-> v,
                      signer |-> Unwrap(signer), balance_due |-> 0, done |-> <<>>,
                      entry |-> Current]
    /\ UNCHANGED <<Claims, Total, FreeBalance, Events, genesis, last, probe>>

\* The frame after statement s; the call returns after the last one.
Advance(frame, s) ==
    [frame EXCEPT !.done = Append(@, s),
                  !.pc = IF Len(frame.done) + 1 = Len(statements) THEN "idle" ELSE "running"]

\* let balance_due = <Claims<T>>::take(&signer).ok_or(..)?
StepTake ==
    /\ \E taken \in {take(Claims, call.signer)} :
          IF IsSome(taken.value)
          THEN /\ Claims' = taken.map
               /\ call' = [Advance(call, "take") EXCEPT !.balance_due = Unwrap(taken.value)]
          ELSE /\ Claims' = no_such_claim(Current, call.sender, call.signer).Claims
               /\ call' = NoFrame
    /\ UNCHANGED <<Total, FreeBalance, Events>>

\* <Total<T>>::mutate(..)
StepMutate ==
    /\ \E t \in {total_mutate(Total, call.balance_due)} :
          IF IsSome(t)
          THEN Total' = Unwrap(t) /\ call' = Advance(call, "mutate")
          ELSE Total' = Total /\ call' = [call EXCEPT !.pc = "panicked"]
    /\ UNCHANGED <<Claims, FreeBalance, Events>>

\* <balances::Module<T>>::increase_free_balance_creating(&sender, balance_due)
StepCredit ==
    /\ FreeBalance' = increase_free_balance_creating(FreeBalance, call.sender, call.balance_due)
    /\ call' = Advance(call, "credit")
    /\ UNCHANGED <<Claims, Total, Events>>

\* Self::deposit_event(RawEvent::Claimed(sender, signer, balance_due))
StepEvent ==
    /\ Events' = deposit_event(Events, call.sender, call.signer, call.balance_due)
    /\ call' = Advance(call, "event")
    /\ UNCHANGED <<Claims, Total, FreeBalance>>

\* The running call executes its next statement.
Step ==
    /\ call.pc = "running"
    /\ \E s \in {statements[Len(call.done) + 1]} :
          \/ s = "take" /\ StepTake
          \/ s = "mutate" /\ StepMutate
          \/ s = "credit" /\ StepCredit
          \/ s = "event" /\ StepEvent
    /\ UNCHANGED <<genesis, last, probe>>

NextSteps ==
    \/ \E sender \in Accounts, k \in Keys, a \in Accounts, v \in RecIds : Enter(sender, k, a, v)
    \/ Step

SpecSteps == Init /\ [][NextSteps]_vars

\* A call run statement by statement leaves, when it returns or panics, the
\* state claim gives for the state it started from.
StepsAgreeWithClaim ==
    (call.done # <<>> /\ call.pc \in {"idle", "panicked"}) =>
        LET out == claim(call.entry, Signed(call.sender), Signature(call.key, call.acct, call.v))
        IN  /\ out.Claims = Claims
            /\ out.Total = Total
            /\ out.FreeBalance = FreeBalance
            /\ out.Events = Events
            /\ (out.result = Panic) <=> (call.pc = "panicked")

-----------------------------------------------------------------------------
(* C13 *)

IsPrefix(s, t) == Len(s) <= Len(t) /\ SubSeq(t, 1, Len(s)) = s

Executed(s) == \E i \in 1..Len(call.done) : call.done[i] = s

\* C13: within one claim the statements run in the order take, mutate, credit,
\* event: whenever the credit for address A has been issued A is absent from
\* Claims, and whenever the event has been emitted the entry is removed and
\* Total updated.
C13_SettlementOrder ==
    /\ IsPrefix(call.done, <<"take", "mutate", "credit", "event">>)
    /\ Executed("credit") =>
          /\ call.signer \notin DOMAIN Claims
          /\ Total = call.entry.Total - call.balance_due
    /\ Executed("event") =>
          /\ call.signer \notin DOMAIN Claims
          /\ Total = call.entry.Total - call.balance_due
          /\ Executed("credit")

\* A call has credited a positive amount and not yet emitted its event.
C13_Witness ==
    /\ call.pc = "running"
    /\ call.done = <<"take", "mutate", "credit">>
    /\ call.balance_due > 0
    /\ Events = call.entry.Events

-----------------------------------------------------------------------------
(* create_msg and eth_recover on their own *)

\* An account identifier of n bytes: b + 1, b + 2, ... (modulo 256).
Identifier(n, b) == [i \in 1..n |-> (b + i) % 256]

\* First bytes that make identifiers starting at byte 0, at the ASCII digits, and
\* at bytes that wrap around 255.
FirstBytes == {255, 47, 250}

\* Every value of the i8 recovery-id field.
I8 == -128..127

MsgProbes ==
    {[op |-> "create_msg", who |-> Identifier(n, b), done |-> FALSE, out |-> <<>>] :
        n \in 0..MaxIdLen, b \in FirstBytes}

RecoverProbes ==
    {[op |-> "eth_recover", key |-> k, acct |-> a, who |-> w, v |-> v,
      done |-> FALSE, out |-> None] :
        k \in Keys \cup {Malformed}, a \in Accounts, w \in Accounts, v \in I8}

InitPure ==
    /\ Genesis(<<>>)
    /\ probe \in MsgProbes \cup RecoverProbes

\* create_msg(who)
BuildMessage ==
    /\ probe.op = "create_msg"
    /\ ~probe.done
    /\ probe' = [probe EXCEPT !.done = TRUE, !.out = create_msg(probe.who)]
    /\ UNCHANGED <<Claims, Total, FreeBalance, Events, genesis, last, call>>

\* eth_recover(sig, who), as claim calls it for the account probe.who
Recover ==
    /\ probe.op = "eth_recover"
    /\ ~probe.done
    /\ probe' = [probe EXCEPT
                    !.done = TRUE,
                    !.out = eth_recover(Signature(probe.key, probe.acct, probe.v),
                                        encode(probe.who))]
    /\ UNCHANGED <<Claims, Total, FreeBalance, Events, genesis, last, call>>

NextPure == BuildMessage \/ Recover

SpecPure == InitPure /\ [][NextPure]_vars

-----------------------------------------------------------------------------
(* C11 *)

RECURSIVE DecimalValue(_)
\* The number a sequence of ASCII digits denotes, most significant first.
DecimalValue(d) ==
    IF d = <<>> THEN 0
    ELSE 10 * DecimalValue(SubSeq(d, 1, Len(d) - 1)) + (d[Len(d)] - 48)

-----------------------------------------------------------------------------
(* C12 *)

\* C12: recovery normalizes the recovery id: a signature (r, s, v) with v in
\* the 27/28 convention recovers the same address as (r, s, v - 27), and a
\* recovery id outside the accepted encodings yields no address.
C12_RecoveryIdNormalized ==
    (probe.op = "eth_recover" /\ probe.done) =>
        /\ probe.v \in {27, 28} =>
              probe.out = eth_recover(Signature(probe.key, probe.acct, probe.v - 27),
                                      encode(probe.who))
        /\ probe.v \notin {0, 1, 2, 3, 27, 28} => probe.out = None

-----------------------------------------------------------------------------
(* C14 *)

\* C14: in every state reachable from any initialization, whenever claim
\* removes an entry with balance_due, Total >= balance_due holds: the panic
\* "Pot less than the total of claims" never fires.
C14_PanicUnreachable == last.result # Panic

-----------------------------------------------------------------------------
(* C15 *)

\* The sum of the seed balances fits the Balance type.
SeedSumFits == ListSum(genesis) < BalanceModulus

\* C15, for the seed lists whose sum fits the Balance type: the state produced
\* by initialization has Total equal to the sum of the balances present in
\* Claims, also when an address appears more than once in the list, and once
\* every entry has been claimed Total is 0.
C15_GenesisInvariant ==
    SeedSumFits =>
        /\ last = NoCall => Total = LedgerSum(Claims)
        /\ DOMAIN Claims = {} => Total = 0

-----------------------------------------------------------------------------
(* C16 *)

\* C16: while address A's entry is present, a claim by account X carrying A's
\* signature over X's message succeeds whatever calls, rejected or settled,
\* came before it.
C16_StaysRedeemable ==
    [][\A k \in Keys :
          (/\ last.result # "none"
           /\ SignedForCaller(last', k)
           /\ EthAddress(k) \in DOMAIN Claims)
          => (/\ last'.result = "Ok"
              /\ EthAddress(k) \notin DOMAIN Claims'
              /\ FreeOf(FreeBalance', last'.origin.who)
                    = FreeOf(FreeBalance, last'.origin.who) + Claims[EthAddress(k)])]_vars

-----------------------------------------------------------------------------
(* C17 *)

\* C17: a successful claim on address A by account X changes only A's entry,
\* Total, X's balance and the event log: every other entry of Claims and every
\* other account keeps its balance.
C17_SettlementFrame ==
    [][last'.result = "Ok" =>
          LET A == Events'[Len(Events')].signer
              X == last'.origin.who
          IN  /\ \A a \in Addresses \ {A} : claims(Claims', a) = claims(Claims, a)
              /\ \A y \in Accounts \ {X} :
                    /\ (y \in DOMAIN FreeBalance') <=> (y \in DOMAIN FreeBalance)
                    /\ FreeOf(FreeBalance', y) = FreeOf(FreeBalance, y)]_vars

\* Account 69 has settled a claim while another entry is still open and
\* account 42 holds its balance.
C17_Witness ==
    /\ last.result = "Ok"
    /\ last.origin.who = 69
    /\ DOMAIN Claims # {}
    /\ \E a \in DOMAIN Claims : Claims[a] > 0
    /\ FreeOf(FreeBalance, 42) = 1

-----------------------------------------------------------------------------
(* C18 *)

\* C18: the Total seeded at initialization is the exact sum of the seed
\* balances: the fold never wraps around, so the seeded Total is never smaller
\* than any single seeded balance.
C18_SeedTotalExact ==
    last = NoCall =>
        /\ \A i \in 1..Len(genesis) : Total >= genesis[i][2]
        /\ Total = ListSum(genesis)

====
